---- MODULE Spec2Model ----
(***************************************************************************)
(* pengyhash (Go): the one-shot 64-bit hash Pengyhash and the incremental  *)
(* 256-bit hash.Hash hash256.                                              *)
(*                                                                         *)
(* The repository holds two revisions of hash256:                          *)
(*   - src/README.md, lines 33-167: fields block, s, seed, total, n, with  *)
(*     MarshalBinary and UnmarshalBinary (the revision the tests of        *)
(*     src/unnamed/part_000 are written against).  Modelled by variable h. *)
(*   - src/pengyhash.go, lines 18-127: fields b, s, seed, total, tmp, n,   *)
(*     without the marshalling methods.  Modelled by variable g; its       *)
(*     definitions carry the suffix Go.                                    *)
(* Both engines receive the same New/Write/Sum/Reset calls.                *)
(*                                                                         *)
(* A uint64 is a tuple of four 16-bit limbs, least significant first, so   *)
(* that every sum stays inside TLC's integers and wraps at 2^64.  A byte   *)
(* is a number in 0..255; a byte slice is a sequence of bytes.             *)
(***************************************************************************)
EXTENDS Integers, Sequences, FiniteSets, TLC

\* ------------------------------------------------------------ uint64 words

Limb == 2 ^ 16

Zero64 == <<0, 0, 0, 0>>

\* uint64(i) for a small non-negative int i (a length)
ToWord(i) == <<i % Limb, i \div Limb, 0, 0>>

Min(a, b) == IF a < b THEN a ELSE b

\* a + b on uint64, wrapping at 2^64 (Go's += on uint64)
Add(a, b) ==
  LET t1 == a[1] + b[1]
      t2 == a[2] + b[2] + (t1 \div Limb)
      t3 == a[3] + b[3] + (t2 \div Limb)
      t4 == a[4] + b[4] + (t3 \div Limb)
  IN  <<t1 % Limb, t2 % Limb, t3 % Limb, t4 % Limb>>

\* x ^ y on 4-bit numbers: XorTab[x + 1][y + 1]
XorTab ==
  <<<< 0,  1,  2,  3,  4,  5,  6,  7,  8,  9, 10, 11, 12, 13, 14, 15>>,
    << 1,  0,  3,  2,  5,  4,  7,  6,  9,  8, 11, 10, 13, 12, 15, 14>>,
    << 2,  3,  0,  1,  6,  7,  4,  5, 10, 11,  8,  9, 14, 15, 12, 13>>,
    << 3,  2,  1,  0,  7,  6,  5,  4, 11, 10,  9,  8, 15, 14, 13, 12>>,
    << 4,  5,  6,  7,  0,  1,  2,  3, 12, 13, 14, 15,  8,  9, 10, 11>>,
    << 5,  4,  7,  6,  1,  0,  3,  2, 13, 12, 15, 14,  9,  8, 11, 10>>,
    << 6,  7,  4,  5,  2,  3,  0,  1, 14, 15, 12, 13, 10, 11,  8,  9>>,
    << 7,  6,  5,  4,  3,  2,  1,  0, 15, 14, 13, 12, 11, 10,  9,  8>>,
    << 8,  9, 10, 11, 12, 13, 14, 15,  0,  1,  2,  3,  4,  5,  6,  7>>,
    << 9,  8, 11, 10, 13, 12, 15, 14,  1,  0,  3,  2,  5,  4,  7,  6>>,
    <<10, 11,  8,  9, 14, 15, 12, 13,  2,  3,  0,  1,  6,  7,  4,  5>>,
    <<11, 10,  9,  8, 15, 14, 13, 12,  3,  2,  1,  0,  7,  6,  5,  4>>,
    <<12, 13, 14, 15,  8,  9, 10, 11,  4,  5,  6,  7,  0,  1,  2,  3>>,
    <<13, 12, 15, 14,  9,  8, 11, 10,  5,  4,  7,  6,  1,  0,  3,  2>>,
    <<14, 15, 12, 13, 10, 11,  8,  9,  6,  7,  4,  5,  2,  3,  0,  1>>,
    <<15, 14, 13, 12, 11, 10,  9,  8,  7,  6,  5,  4,  3,  2,  1,  0>>>>

\* x ^ y on bytes, one hexadecimal digit at a time
Xor8(x, y) ==
  XorTab[(x % 16) + 1][(y % 16) + 1]
    + 16 * XorTab[(x \div 16) + 1][(y \div 16) + 1]

\* x ^ y on limbs
Xor16(x, y) == Xor8(x % 256, y % 256) + 256 * Xor8(x \div 256, y \div 256)

\* a ^ b on uint64
Xor(a, b) ==
  <<Xor16(a[1], b[1]), Xor16(a[2], b[2]), Xor16(a[3], b[3]), Xor16(a[4], b[4])>>

\* bits.RotateLeft64(w, k), 0 <= k < 64
RotateLeft64(w, k) ==
  LET q  == k \div 16
      r  == k % 16
      hi == 2 ^ (16 - r)
      lo == 2 ^ r
      at(i) == w[((i - 1) % 4) + 1]
  IN  [i \in 1..4 |-> ((at(i - q) % hi) * lo) + (at(i - q - 1) \div hi)]

\* binary.LittleEndian.Uint64(buf[off:]), off counted from 0
Uint64(buf, off) ==
  [i \in 1..4 |-> buf[off + 2 * i - 1] + 256 * buf[off + 2 * i]]

\* binary.LittleEndian.PutUint64: the 8 bytes of w
PutUint64(w) ==
  [k \in 1..8 |-> IF k % 2 = 1 THEN w[(k + 1) \div 2] % 256
                                ELSE w[k \div 2] \div 256]

\* the 32-byte image of four words (PutUint64 at offsets 0, 8, 16, 24)
PutWords(ws) ==
  PutUint64(ws[1]) \o PutUint64(ws[2]) \o PutUint64(ws[3]) \o PutUint64(ws[4])

\* the four words of a 32-byte block (Uint64 at offsets 0, 8, 16, 24)
BlockWords(buf) ==
  <<Uint64(buf, 0), Uint64(buf, 8), Uint64(buf, 16), Uint64(buf, 24)>>

\* copy(dst[from:], src): dst afterwards; from counted from 0
CopyAt(dst, from, src) ==
  [k \in 1..Len(dst) |->
     IF k > from /\ k - from <= Len(src) THEN src[k - from] ELSE dst[k]]

\* copy(dst[from:], src): the number of bytes copied
CopyLen(dst, from, src) == Min(Len(dst) - from, Len(src))

\* buf[k:], k counted from 0
Drop(buf, k) == SubSeq(buf, k + 1, Len(buf))

ZeroBlock == [k \in 1..32 |-> 0]

\* -------------------------------------------------------------- mixing

\* Round with the first rotation by 13 in place of 14
RoundRot13(s, b, extra) ==
  LET a0 == Add(s[1], Add(s[2], b[4]))
      a1 == Add(Add(a0, RotateLeft64(s[2], 13)), extra)
      a2 == Add(s[3], Add(s[4], b[3]))
      a3 == Add(a2, RotateLeft64(s[4], 23))
      c0 == Add(a0, Add(a3, b[2]))
      c3 == Xor(c0, RotateLeft64(a3, 16))
      c2 == Add(a2, Add(a1, b[1]))
      c1 == Xor(c2, RotateLeft64(a1, 40))
  IN  <<c0, c1, c2, c3>>

\* Round with s[3] << 16 in place of RotateLeft64(s[3], 16): the top 16 bits
\* of s[3] are dropped
RoundShift16(s, b, extra) ==
  LET a0 == Add(s[1], Add(s[2], b[4]))
      a1 == Add(Add(a0, RotateLeft64(s[2], 14)), extra)
      a2 == Add(s[3], Add(s[4], b[3]))
      a3 == Add(a2, RotateLeft64(s[4], 23))
      c0 == Add(a0, Add(a3, b[2]))
      c3 == Xor(c0, <<0, a3[1], a3[2], a3[3]>>)
      c2 == Add(a2, Add(a1, b[1]))
      c1 == Xor(c2, RotateLeft64(a1, 40))
  IN  <<c0, c1, c2, c3>>

\* The eight-step round: s the accumulator, b the block words, extra the
\* term added to the s[1] update (zero when a block is absorbed).
Round(s, b, extra) ==
  LET a0 == Add(s[1], Add(s[2], b[4]))
      a1 == Add(Add(a0, RotateLeft64(s[2], 14)), extra)
      a2 == Add(s[3], Add(s[4], b[3]))
      a3 == Add(a2, RotateLeft64(s[4], 23))
      c0 == Add(a0, Add(a3, b[2]))
      c3 == Xor(c0, RotateLeft64(a3, 16))
      c2 == Add(a2, Add(a1, b[1]))
      c1 == Xor(c2, RotateLeft64(a1, 40))
  IN  <<c0, c1, c2, c3>>

RECURSIVE Rounds(_, _, _, _)
\* for i := 0; i < k; i++ { round }
Rounds(s, b, extra, k) ==
  IF k = 0 THEN s ELSE Rounds(Round(s, b, extra), b, extra, k - 1)

\* ------------------------------------------------------------ Pengyhash

RECURSIVE PengyLoop(_, _, _)
\* for ; len(buf) >= 32; buf = buf[32:] { b = block; round }
PengyLoop(s, b, buf) ==
  IF Len(buf) >= 32
    THEN PengyLoop(Round(s, BlockWords(buf), Zero64), BlockWords(buf), Drop(buf, 32))
    ELSE [s |-> s, b |-> b, buf |-> buf]

\* the state of Pengyhash when its block loop ends
PengyBlocks(buf) ==
  PengyLoop(<<Zero64, Zero64, Zero64, ToWord(Len(buf))>>,
            <<Zero64, Zero64, Zero64, Zero64>>, buf)

\* var tmp [32]byte: the byte image of b, then copy(tmp[:], buf[:])
PengyTmp(buf) ==
  LET lp == PengyBlocks(buf)
  IN  CopyAt(PutWords(lp.b), 0, lp.buf)

\* Pengyhash(buf, seed): seed a uint32 given as a small number
Pengyhash(buf, seed) ==
  LET lp  == PengyBlocks(buf)
      tmp == PengyTmp(buf)
      s   == Rounds(lp.s, BlockWords(tmp), ToWord(seed), 6)
  IN  Add(Add(s[1], s[2]), Add(s[3], s[4]))

\* ------------------------------------- hash256, revision of src/README.md

\* New(seed): var h hash256; h.seed = seed; h.s[3] = seed
New(seed) ==
  [block |-> ZeroBlock, s |-> <<Zero64, Zero64, Zero64, seed>>,
   seed |-> seed, total |-> Zero64, n |-> 0]

\* Reset: *h = hash256{} zeroes every field, seed included; then
\* h.s[3] = h.seed reads the seed just zeroed.
Reset(h) ==
  LET z == [block |-> ZeroBlock, s |-> <<Zero64, Zero64, Zero64, Zero64>>,
            seed |-> Zero64, total |-> Zero64, n |-> 0]
  IN  [z EXCEPT !.s[4] = z.seed]

\* write32(buf): decode the first 32 bytes of buf and mix them into h.s
write32(s, buf) == Round(s, BlockWords(buf), Zero64)

RECURSIVE WriteLoopNoCopy(_, _, _)
\* the loop of Write without its copy of the last whole block into h.block
WriteLoopNoCopy(s, block, buf) ==
  IF Len(buf) >= 32
    THEN WriteLoopNoCopy(write32(s, buf), block, Drop(buf, 32))
    ELSE [s |-> s, block |-> block, buf |-> buf]

RECURSIVE WriteLoop(_, _, _)
\* for ; len(buf) >= 32; buf = buf[32:] {
\*     h.write32(buf); if len(buf) < 64 { copy(h.block[:], buf[:]) } }
WriteLoop(s, block, buf) ==
  IF Len(buf) >= 32
    THEN WriteLoop(write32(s, buf),
                   IF Len(buf) < 64 THEN CopyAt(block, 0, buf) ELSE block,
                   Drop(buf, 32))
    ELSE [s |-> s, block |-> block, buf |-> buf]

\* Write adding to h.total the length of what is left of buf once the
\* pending block is filled, in place of the length of buf
WriteCountsRest(h, buf) ==
  LET n     == IF h.n # 0 THEN CopyLen(h.block, h.n, buf) ELSE 0
      blk1  == IF h.n # 0 THEN CopyAt(h.block, h.n, buf) ELSE h.block
      buf1  == Drop(buf, n)
      full  == h.n # 0 /\ h.n + n = 32
      s1    == IF full THEN write32(h.s, blk1) ELSE h.s
      lp    == WriteLoop(s1, blk1, buf1)
  IN  [h |-> [block |-> CopyAt(lp.block, 0, lp.buf),
              s     |-> lp.s,
              seed  |-> h.seed,
              total |-> Add(h.total, ToWord(Len(buf1))),
              n     |-> CopyLen(lp.block, 0, lp.buf)],
       n |-> Len(buf), err |-> "nil"]

\* Write(buf): the engine afterwards and the two results (int, error).
\* h.block[h.n:] panics when h.n > 32 (slice bounds out of range); the
\* total is already added then.
Write(h, buf) ==
  LET total == Len(buf)
      \* if h.n != 0 { n := copy(h.block[h.n:], buf); h.n += n; buf = buf[n:]
      n     == IF h.n # 0 THEN CopyLen(h.block, h.n, buf) ELSE 0
      blk1  == IF h.n # 0 THEN CopyAt(h.block, h.n, buf) ELSE h.block
      n1    == h.n + n
      buf1  == Drop(buf, n)
      \*   if h.n == 32 { h.write32(h.block[:]); h.n = 0 } }
      full  == h.n # 0 /\ n1 = 32
      s1    == IF full THEN write32(h.s, blk1) ELSE h.s
      lp    == WriteLoop(s1, blk1, buf1)
  IN  IF h.n > 32
        THEN [h |-> [h EXCEPT !.total = Add(h.total, ToWord(total))],
              n |-> 0, err |-> "panic"]
        ELSE [h |-> [block |-> CopyAt(lp.block, 0, lp.buf),
                     s     |-> lp.s,
                     seed  |-> h.seed,
                     total |-> Add(h.total, ToWord(total)),
                     \* h.n = copy(h.block[:], buf[:])
                     n     |-> CopyLen(lp.block, 0, lp.buf)],
              n |-> total, err |-> "nil"]

\* Sum mixing h.s itself, without the local copy
SumInPlace(h) ==
  LET b == BlockWords(h.block)
      s == Rounds(h.s, b, h.total, 6)
  IN  [h |-> [h EXCEPT !.s = s], r |-> PutWords(s)]

\* Sum(p) with p empty: the engine afterwards and the 32 bytes returned.
\* b is decoded from h.block, s is a local copy of h.s.
Sum(h) ==
  LET b == BlockWords(h.block)
      s == Rounds(h.s, b, h.total, 6)
  IN  [h |-> h, r |-> PutWords(s)]

\* MarshalBinary: the engine afterwards, the 81 bytes and the error
MarshalBinary(h) ==
  [h   |-> h,
   buf |-> h.block \o PutWords(h.s) \o PutUint64(h.seed)
             \o PutUint64(h.total) \o <<h.n % 256>>,
   err |-> "nil"]

\* the engine decoded from data, the total read at offset `at`
Decoded(data, at) ==
  [block |-> SubSeq(data, 1, 32),
   s     |-> <<Uint64(data, 32), Uint64(data, 40),
               Uint64(data, 48), Uint64(data, 56)>>,
   seed  |-> Uint64(data, 64),
   total |-> Uint64(data, at),
   n     |-> data[81]]

\* UnmarshalBinary reading the total at offset 64, where the seed is
UnmarshalBinaryTotalAt64(h, data) ==
  IF Len(data) < 32 + 32 + 8 + 8 + 1
    THEN [h |-> h, err |-> "invalid length"]
  ELSE IF data[81] >= 32
    THEN [h |-> h, err |-> "invalid data"]
  ELSE [h |-> Decoded(data, 64), err |-> "nil"]

\* UnmarshalBinary refusing data[80] > 32 in place of data[80] >= 32
UnmarshalBinaryAbove32(h, data) ==
  IF Len(data) < 32 + 32 + 8 + 8 + 1
    THEN [h |-> h, err |-> "invalid length"]
  ELSE IF data[81] > 32
    THEN [h |-> h, err |-> "invalid data"]
  ELSE [h |-> Decoded(data, 72), err |-> "nil"]

\* UnmarshalBinary copying the block and the words before it looks at data[80]
UnmarshalBinaryCopyFirst(h, data) ==
  IF Len(data) < 32 + 32 + 8 + 8 + 1
    THEN [h |-> h, err |-> "invalid length"]
  ELSE IF data[81] >= 32
    THEN [h |-> [h EXCEPT !.block = SubSeq(data, 1, 32),
                          !.s = Decoded(data, 72).s],
          err |-> "invalid data"]
  ELSE [h |-> Decoded(data, 72), err |-> "nil"]

\* UnmarshalBinary checking the length alone
UnmarshalBinaryLengthOnly(h, data) ==
  IF Len(data) < 32 + 32 + 8 + 8 + 1
    THEN [h |-> h, err |-> "invalid length"]
  ELSE [h |-> Decoded(data, 72), err |-> "nil"]

\* UnmarshalBinary(data): the engine afterwards and the error
UnmarshalBinary(h, data) ==
  IF Len(data) < 32 + 32 + 8 + 8 + 1
    THEN [h |-> h, err |-> "invalid length"]
  ELSE IF data[81] >= 32
    THEN [h |-> h, err |-> "invalid data"]
  ELSE [h |-> [block |-> SubSeq(data, 1, 32),
               s     |-> <<Uint64(data, 32), Uint64(data, 40),
                           Uint64(data, 48), Uint64(data, 56)>>,
               seed  |-> Uint64(data, 64),
               total |-> Uint64(data, 72),
               n     |-> data[81]],
        err |-> "nil"]

\* ----------------------------------- hash256, revision of src/pengyhash.go

NewGo(seed) ==
  [b |-> <<Zero64, Zero64, Zero64, Zero64>>,
   s |-> <<Zero64, Zero64, Zero64, seed>>,
   seed |-> seed, total |-> Zero64, tmp |-> ZeroBlock, n |-> 0]

\* Reset that leaves h.n as it is
ResetGoKeepsN(h) ==
  [h EXCEPT !.b = <<Zero64, Zero64, Zero64, Zero64>>,
            !.s = <<Zero64, Zero64, Zero64, h.seed>>,
            !.total = Zero64]

\* Reset: b and s[0..2] zeroed, s[3] = seed, n = 0, total = 0; tmp is kept
ResetGo(h) ==
  [h EXCEPT !.b = <<Zero64, Zero64, Zero64, Zero64>>,
            !.s = <<Zero64, Zero64, Zero64, h.seed>>,
            !.n = 0, !.total = Zero64]

\* write32(buf): h.b = the words of buf; mix them into h.s
write32Go(h, buf) ==
  [h EXCEPT !.b = BlockWords(buf), !.s = Round(h.s, BlockWords(buf), Zero64)]

RECURSIVE WriteLoopGo(_, _)
\* for ; len(buf) >= 32; buf = buf[32:] { h.write32(buf) }
WriteLoopGo(h, buf) ==
  IF Len(buf) >= 32
    THEN WriteLoopGo(write32Go(h, buf), Drop(buf, 32))
    ELSE [h |-> h, buf |-> buf]

WriteGo(h, buf) ==
  LET total == Len(buf)
      n     == IF h.n # 0 THEN CopyLen(h.tmp, h.n, buf) ELSE 0
      tmp1  == IF h.n # 0 THEN CopyAt(h.tmp, h.n, buf) ELSE h.tmp
      n1    == h.n + n
      buf1  == Drop(buf, n)
      full  == h.n # 0 /\ n1 = 32
      h0    == [h EXCEPT !.total = Add(h.total, ToWord(total)), !.tmp = tmp1]
      h1    == IF full THEN write32Go(h0, tmp1) ELSE h0
      lp    == WriteLoopGo(h1, buf1)
  IN  [h |-> [lp.h EXCEPT !.tmp = CopyAt(lp.h.tmp, 0, lp.buf),
                          !.n   = CopyLen(lp.h.tmp, 0, lp.buf)],
       n |-> total, err |-> "nil"]

\* Sum: the local tmp is the byte image of h.b overlaid with h.tmp[:h.n]
SumGo(h) ==
  LET tmp == CopyAt(PutWords(h.b), 0, SubSeq(h.tmp, 1, h.n))
      s   == Rounds(h.s, BlockWords(tmp), h.total, 6)
  IN  [h |-> h, r |-> PutWords(s)]

\* ------------------------------------------------------------- inputs

\* Write calls in one run of Spec
MaxWrites == 3

\* Write calls in one run of SpecState
MaxStateWrites == 2

\* the seeds given to New: 0 and 39 (the seed of TestOutput)
Seeds == {Zero64, ToWord(39)}

\* a chunk of len bytes: zeros when fill = 0, else fill, fill + 37, ... mod 256
Chunk(len, fill) ==
  [k \in 1..len |-> IF fill = 0 THEN 0 ELSE (fill + 37 * (k - 1)) % 256]

\* the chunks given to Write in Spec: empty, one byte, the 31 bytes that
\* complete a block after one byte, 39 zero bytes (TestOutput), two blocks
\* and 5 bytes
Chunks ==
  {Chunk(0, 0), Chunk(1, 255), Chunk(31, 17), Chunk(39, 0), Chunk(69, 3)}

\* the chunks given to Write in SpecState
StateChunks == {Chunk(1, 255), Chunk(31, 17)}

\* data with its byte at offset 80 replaced
WithLast(data, v) == [data EXCEPT ![81] = v]

\* 81 bytes not made by MarshalBinary: every byte 255, byte 80 = last
Foreign(last) == [k \in 1..81 |-> IF k = 81 THEN last ELSE 255]

\* the byte strings given to UnmarshalBinary.  A caller that holds no
\* snapshot gives nothing, or 81 foreign bytes with byte 80 in or out of
\* range; a caller that holds snap gives it whole, with a byte after it, cut
\* to 80 bytes, or with byte 80 set to 32.
Datas(snap) ==
  IF snap = <<>>
    THEN {<<>>, Foreign(31), Foreign(32)}
    ELSE {snap, snap \o <<9>>, SubSeq(snap, 1, 80), WithLast(snap, 32)}

\* the inputs of TestOutput, in place of its one input of 39 zero bytes
InputLens == {0, 1, 7, 31, 32, 33, 39, 63, 64, 65, 69, 96, 100}

Inputs == {Chunk(len, fill) : len \in InputLens, fill \in {0, 3}}

RECURSIVE Flatten(_)
\* the chunks of a sequence, one after the other
Flatten(cs) == IF cs = <<>> THEN <<>> ELSE Head(cs) \o Flatten(Tail(cs))

\* -------------------------------------------------------------- state

VARIABLES
  h,        \* the engine of src/README.md
  g,        \* the engine of src/pengyhash.go
  arg,      \* the byte slice given to the last call (<<>> when it takes none)
  ret,      \* the last call and what it returned
  seed0,    \* the seed h was given: by New, or by the snapshot imported
  chunks,   \* the chunks written since the last New or Reset, in order; not
            \* kept once a snapshot is imported
  fresh,    \* only Write and Sum were called since the last New
  imported, \* UnmarshalBinary succeeded since the last New or Reset
  snap,     \* the bytes of the last MarshalBinary, kept by the caller
  snapOf,   \* the engine as it was at that MarshalBinary
  paired,   \* h was imported from snap and given only Write and Sum since
  twin,     \* while paired: the engine snapOf carried on, given the calls
            \* that h is given; NoEngine otherwise
  nw,       \* Write calls so far
  input,    \* TestOutput's input
  got64     \* TestOutput's got64

vars == <<h, g, arg, ret, seed0, chunks, fresh, imported, snap, snapOf,
          paired, twin, nw, input, got64>>

\* the value of an engine variable that holds no engine
NoEngine == New(Zero64)

NoEngineGo == NewGo(Zero64)

\* a call's results: the int, the error, the bytes of the README.md engine,
\* and the bytes of the pengyhash.go engine
Result(op, n, err, bytes, bytesGo) ==
  [op |-> op, n |-> n, err |-> err, bytes |-> bytes, bytesGo |-> bytesGo]

\* the state right after h := New(seed)
Constructed(seed) ==
  /\ h = New(seed)
  /\ g = NewGo(seed)
  /\ arg = <<>>
  /\ ret = Result("New", 0, "nil", <<>>, <<>>)
  /\ seed0 = seed
  /\ chunks = <<>>
  /\ fresh = TRUE
  /\ imported = FALSE
  /\ snap = <<>>
  /\ snapOf = NoEngine
  /\ paired = FALSE
  /\ twin = NoEngine
  /\ nw = 0
  /\ input = <<>>
  /\ got64 = Zero64

Init == \E seed \in Seeds : Constructed(seed)

\* In Spec and in SpecOutput both engines are given every call (both =
\* TRUE).  In SpecState only h is (both = FALSE): the engine of pengyhash.go
\* has no MarshalBinary and no UnmarshalBinary, and stays as constructed.

\* h := New(seed): the caller goes on with a new engine; snap is kept
DoNew ==
  /\ \E seed \in Seeds :
       /\ h' = New(seed)
       /\ seed0' = seed
  /\ arg' = <<>>
  /\ ret' = Result("New", 0, "nil", <<>>, <<>>)
  /\ chunks' = <<>>
  /\ fresh' = TRUE
  /\ imported' = FALSE
  /\ paired' = FALSE
  /\ twin' = NoEngine
  /\ UNCHANGED <<g, snap, snapOf, nw, input, got64>>

DoWrite(bufs, max, both) ==
  /\ nw < max
  /\ \E buf \in bufs :
       LET w == Write(h, buf)
       IN  /\ h' = w.h
           /\ g' = IF both THEN WriteGo(g, buf).h ELSE g
           /\ arg' = buf
           /\ ret' = Result("Write", w.n, w.err, <<>>, <<>>)
           /\ chunks' = IF imported THEN chunks ELSE Append(chunks, buf)
           /\ twin' = IF paired THEN Write(twin, buf).h ELSE twin
  /\ nw' = nw + 1
  /\ UNCHANGED <<seed0, fresh, imported, snap, snapOf, paired, input, got64>>

DoSum(both) ==
  /\ LET r == Sum(h)
     IN  /\ h' = r.h
         /\ g' = IF both THEN SumGo(g).h ELSE g
         /\ ret' = Result("Sum", 0, "nil", r.r,
                          IF both THEN SumGo(g).r ELSE <<>>)
  /\ arg' = <<>>
  /\ UNCHANGED <<seed0, chunks, fresh, imported, snap, snapOf, paired, twin,
                 nw, input, got64>>

DoReset(both) ==
  /\ h' = Reset(h)
  /\ g' = IF both THEN ResetGo(g) ELSE g
  /\ arg' = <<>>
  /\ ret' = Result("Reset", 0, "nil", <<>>, <<>>)
  /\ chunks' = <<>>
  /\ fresh' = FALSE
  /\ imported' = FALSE
  /\ paired' = FALSE
  /\ twin' = NoEngine
  /\ UNCHANGED <<seed0, snap, snapOf, nw, input, got64>>

DoMarshalBinary ==
  LET m == MarshalBinary(h)
  IN  /\ h' = m.h
      /\ arg' = <<>>
      /\ ret' = Result("MarshalBinary", 0, m.err, m.buf, <<>>)
      /\ snap' = m.buf
      /\ snapOf' = h
      /\ paired' = FALSE
      /\ twin' = NoEngine
      /\ UNCHANGED <<g, seed0, chunks, fresh, imported, nw, input, got64>>

DoUnmarshalBinary ==
  \E data \in Datas(snap) :
    LET u    == UnmarshalBinary(h, data)
        ok   == u.err = "nil"
        same == ok /\ snap # <<>> /\ SubSeq(data, 1, 81) = snap
    IN  /\ h' = u.h
        /\ arg' = data
        /\ ret' = Result("UnmarshalBinary", 0, u.err, <<>>, <<>>)
        /\ seed0' = IF ok THEN u.h.seed ELSE seed0
        /\ chunks' = IF ok THEN <<>> ELSE chunks
        /\ fresh' = (fresh /\ ~ok)
        /\ imported' = (imported \/ ok)
        /\ paired' = IF ok THEN same ELSE paired
        /\ twin' = IF ok THEN (IF same THEN snapOf ELSE NoEngine) ELSE twin
        /\ UNCHANGED <<g, snap, snapOf, nw, input, got64>>

\* the hash.Hash calls, given to both engines
Next ==
  \/ DoWrite(Chunks, MaxWrites, TRUE)
  \/ DoSum(TRUE)
  \/ DoReset(TRUE)

Spec == Init /\ [][Next]_vars

\* every call of the README.md engine, with those of
\* encoding.BinaryMarshaler and encoding.BinaryUnmarshaler
NextState ==
  \/ DoNew
  \/ DoWrite(StateChunks, MaxStateWrites, FALSE)
  \/ DoSum(FALSE)
  \/ DoReset(FALSE)
  \/ DoMarshalBinary
  \/ DoUnmarshalBinary

SpecState == Init /\ [][NextState]_vars

\* ---------------------------------------------------------- TestOutput

\* TestOutput, entered with any input of Inputs
InitOutput ==
  /\ input \in Inputs
  /\ h = NoEngine
  /\ g = NoEngineGo
  /\ arg = <<>>
  /\ ret = Result("TestOutput", 0, "nil", <<>>, <<>>)
  /\ seed0 = Zero64
  /\ chunks = <<>>
  /\ fresh = FALSE
  /\ imported = FALSE
  /\ snap = <<>>
  /\ snapOf = NoEngine
  /\ paired = FALSE
  /\ twin = NoEngine
  /\ nw = 0
  /\ got64 = Zero64

\* got64 := Pengyhash(input[:], uint32(len(input)))
TestPengyhash ==
  /\ ret.op = "TestOutput"
  /\ got64' = Pengyhash(input, Len(input))
  /\ arg' = input
  /\ ret' = Result("Pengyhash", 0, "nil", PutUint64(got64'), <<>>)
  /\ UNCHANGED <<h, g, seed0, chunks, fresh, imported, snap, snapOf, paired,
                 twin, nw, input>>

\* h := New(uint64(len(input)))
TestNew ==
  /\ ret.op = "Pengyhash"
  /\ h' = New(ToWord(Len(input)))
  /\ g' = NewGo(ToWord(Len(input)))
  /\ seed0' = ToWord(Len(input))
  /\ arg' = <<>>
  /\ ret' = Result("New", 0, "nil", <<>>, <<>>)
  /\ fresh' = TRUE
  /\ UNCHANGED <<chunks, imported, snap, snapOf, paired, twin, nw, input,
                 got64>>

\* h.Write(input[:])
TestWrite ==
  /\ ret.op = "New"
  /\ DoWrite({input}, 1, TRUE)

\* got := h.Sum(nil)
TestSum ==
  /\ ret.op = "Write"
  /\ DoSum(TRUE)

NextOutput ==
  \/ TestPengyhash
  \/ TestNew
  \/ TestWrite
  \/ TestSum

SpecOutput == InitOutput /\ [][NextOutput]_vars

\* --------------------------------------------------- the mixing round

\* Write calls in one run of SpecRound
MaxRounds == 2

Ones == <<65535, 65535, 65535, 65535>>

Top == <<0, 0, 0, 32768>>

\* accumulators: zeros, all bits set, that of New(39), two that differ in
\* one bit, and a pattern
Accs ==
  {<<Zero64, Zero64, Zero64, Zero64>>,
   <<Ones, Ones, Ones, Ones>>,
   <<Zero64, Zero64, Zero64, ToWord(39)>>,
   <<Top, ToWord(1), Ones, Top>>,
   <<Top, ToWord(1), Ones, <<1, 0, 0, 32768>>>>,
   <<<<1, 2, 3, 4>>, <<65535, 0, 65535, 0>>,
     <<4660, 22136, 39612, 57072>>, <<43981, 61389, 291, 17767>>>>}

\* the 32-byte blocks given to Write in SpecRound
RoundBlocks == {Chunk(32, 0), Chunk(32, 3), [k \in 1..32 |-> 255]}

\* the engine after UnmarshalBinary of a zero block, the accumulator s, the
\* seed 0, the total and a pending length of 0
Imported(s, total) ==
  UnmarshalBinary(NoEngine,
                  ZeroBlock \o PutWords(s) \o PutUint64(Zero64)
                    \o PutUint64(total) \o <<0>>).h

\* two engines, h and twin, imported with any two accumulators of Accs and
\* the same total; from here on twin is given every call h is given
InitRound ==
  /\ \E s1 \in Accs, s2 \in Accs, total \in {Zero64, Ones} :
       /\ h = Imported(s1, total)
       /\ twin = Imported(s2, total)
  /\ g = NoEngineGo
  /\ arg = <<>>
  /\ ret = Result("UnmarshalBinary", 0, "nil", <<>>, <<>>)
  /\ seed0 = Zero64
  /\ chunks = <<>>
  /\ fresh = FALSE
  /\ imported = TRUE
  /\ snap = <<>>
  /\ snapOf = NoEngine
  /\ paired = TRUE
  /\ nw = 0
  /\ input = <<>>
  /\ got64 = Zero64

\* a Write of one whole block is one write32, a Sum is six rounds with the
\* total added
NextRound ==
  \/ DoWrite(RoundBlocks, MaxRounds, FALSE)
  \/ DoSum(FALSE)

SpecRound == InitRound /\ [][NextRound]_vars

\* -------------------------------------------------------------- claims

\* the bytes written since the last New or Reset
X == Flatten(chunks)

\* New(seed); Write(x); Sum() on the README.md engine
OneWrite(seed, x) == Sum(Write(New(seed), x).h).r

\* New(seed); Write(x); Sum() on the pengyhash.go engine
OneWriteGo(seed, x) == SumGo(WriteGo(NewGo(seed), x).h).r

\* C1: however the bytes X were cut into chunks, an engine that was given
\* only the chunks since New(seed) returns from Sum() what a fresh engine of
\* the same seed returns after one Write(X).  Stated of both engines;
\* violated by both.
C1_ChunkingInvariance ==
  fresh => /\ Sum(h).r = OneWrite(seed0, X)
           /\ SumGo(g).r = OneWriteGo(seed0, X)

\* C2: right after Reset() the engine is what New(seed) makes (S =
\* (0,0,0,seed), total = 0, n = 0, the seed kept), and Reset(); Write(X);
\* Sum() returns what New(seed); Write(X); Sum() returns.  Stated of both
\* engines; violated by the README.md engine, whose Reset zeroes the seed.
C2_ResetEquivalence ==
  /\ ret.op = "Reset" =>
       /\ h.s = <<Zero64, Zero64, Zero64, seed0>>
       /\ h.total = Zero64 /\ h.n = 0 /\ h.seed = seed0
       /\ g.s = <<Zero64, Zero64, Zero64, seed0>>
       /\ g.total = Zero64 /\ g.n = 0 /\ g.seed = seed0
  /\ ~fresh /\ Len(chunks) <= 1 =>
       /\ Sum(h).r = OneWrite(seed0, X)
       /\ SumGo(g).r = OneWriteGo(seed0, X)

\* C3: MarshalBinary succeeds with 81 bytes; UnmarshalBinary of these bytes
\* succeeds and makes h the engine that was marshalled; from then on h and
\* that engine, given the same Writes, are equal field by field and return
\* the same Sum().
C3_StateRoundTrip ==
  /\ ret.op = "MarshalBinary" => ret.err = "nil" /\ Len(ret.bytes) = 81
  /\ ret.op = "UnmarshalBinary" /\ snap # <<>> /\ arg = snap =>
       ret.err = "nil" /\ h = snapOf
  /\ paired => h = twin /\ Sum(h).r = Sum(twin).r

\* C3's case: a snapshot taken after input was absorbed, imported, and a
\* Write given to both engines afterwards
C3_Witness ==
  /\ paired /\ ret.op = "Write"
  /\ snapOf.total # Zero64 /\ snapOf.n # 0
  /\ h.total # snapOf.total

\* C4: a Sum() step changes no field of either engine, and a Sum() that
\* follows a Sum() returns the same bytes.
C4_SumFrame ==
  [][ret'.op = "Sum" =>
       /\ h' = h
       /\ g' = g
       /\ (ret.op = "Sum" => ret'.bytes = ret.bytes
                             /\ ret'.bytesGo = ret.bytesGo)]_vars

\* C4's case: Sum() called on an engine with absorbed blocks and a pending
\* tail
C4_Witness ==
  /\ ret.op = "Sum" /\ h.n # 0 /\ h.s # New(seed0).s /\ Len(chunks) >= 2

\* C5: UnmarshalBinary returns the length error for fewer than 81 bytes,
\* the other error for 81 bytes or more with byte 80 >= 32, and nil for 81
\* bytes or more with byte 80 in 0..31.
C5_ImportValidation ==
  ret.op = "UnmarshalBinary" =>
    ret.err = IF Len(arg) < 81 THEN "invalid length"
              ELSE IF arg[81] >= 32 THEN "invalid data"
              ELSE "nil"

\* C5's case: 81 bytes with byte 80 = 32 refused as invalid data
C5_Witness ==
  /\ ret.op = "UnmarshalBinary" /\ Len(arg) = 81 /\ arg[81] = 32
  /\ ret.err = "invalid data"

\* C6: an UnmarshalBinary step that returns an error changes no field of
\* the engine.
C6_FailedImportAtomic ==
  [][ret'.op = "UnmarshalBinary" /\ ret'.err # "nil" => h' = h]_vars

\* C6's case: bytes of another engine's snapshot, byte 80 out of range,
\* refused by an engine that has absorbed input
C6_Witness ==
  /\ ret.op = "UnmarshalBinary" /\ ret.err = "invalid data"
  /\ h.total # Zero64
  /\ SubSeq(arg, 1, 32) # h.block

\* C7: the pending length is in 0..31 in every state, byte 80 of every
\* snapshot is in 0..31, and no Write panics on the 32-byte buffer.
C7_PendingRange ==
  /\ h.n \in 0..31
  /\ ret.op = "MarshalBinary" => ret.bytes[81] \in 0..31
  /\ ret.op = "Write" => ret.err # "panic"

\* C7's case: a Write after an import of foreign bytes with byte 80 = 31
C7_Witness ==
  /\ ret.op = "Write" /\ imported /\ ~paired /\ h.seed = Uint64(Foreign(31), 64)

\* C8: Write returns (len(buf), nil); the total is the sum of the lengths
\* written since New or the last Reset, and every Write adds len(buf) to it
\* modulo 2^64; Sum, MarshalBinary and a failed UnmarshalBinary leave it.
C8_TotalCounter ==
  /\ [](/\ ret.op = "Write" => ret.n = Len(arg) /\ ret.err = "nil"
        /\ ~imported => h.total = ToWord(Len(X)))
  /\ [][/\ ret'.op = "Write" => h'.total = Add(h.total, ToWord(Len(arg')))
        /\ ret'.op \in {"Sum", "MarshalBinary"} => h'.total = h.total
        /\ ret'.op = "UnmarshalBinary" /\ ret'.err # "nil" =>
             h'.total = h.total]_vars

\* C8's case: a Write that wraps the total of an imported engine past 2^64
C8_Witness ==
  /\ ret.op = "Write" /\ imported /\ Len(arg) = 31
  /\ h.total = ToWord(30)

\* the digests of TestOutput
Want64 == <<47362, 47326, 30904, 62705>>

Want ==
  <<1, 84, 186, 138, 0, 55, 52, 108, 50, 106, 222, 19, 159, 218, 215, 75,
    208, 22, 153, 39, 188, 42, 38, 140, 255, 227, 172, 242, 92, 60, 191, 176>>

\* C9: Pengyhash of 39 zero bytes with seed 39 is 0xf4f178b8b8deb902, and
\* New(39); Write(39 zero bytes); Sum() is the 32 bytes of TestOutput, on
\* either engine.
C9_KnownVectors ==
  input = Chunk(39, 0) =>
    /\ ret.op \in {"Pengyhash", "New", "Write", "Sum"} =>
         got64 = Want64 /\ PutUint64(got64) = <<2, 185, 222, 184, 184, 120, 241, 244>>
    /\ ret.op = "Sum" => ret.bytes = Want /\ ret.bytesGo = Want

\* C9's case: TestOutput run to its Sum() on 39 zero bytes
C9_Witness ==
  /\ input = Chunk(39, 0) /\ ret.op = "Sum" /\ seed0 = ToWord(39)
  /\ chunks = <<Chunk(39, 0)>>

\* C10: Write(a); Write(b); Sum() on a fresh engine returns what Write(a+b);
\* Sum() returns on a fresh engine of the same seed.  Stated of both
\* engines; violated by the pengyhash.go engine.
C10_TwoChunkSplit ==
  fresh /\ Len(chunks) = 2 =>
    /\ Sum(h).r = OneWrite(seed0, X)
    /\ SumGo(g).r = OneWriteGo(seed0, X)

\* C11: a Write of an empty chunk changes no field of either engine: not the
\* accumulator, the total, the block or tail buffer, nor the pending length.
\* Stated of both engines; violated by both when bytes are pending.
C11_EmptyWriteNoOp ==
  [][ret'.op = "Write" /\ arg' = <<>> => h' = h /\ g' = g]_vars

\* C12: in every state reached by New, Write, Sum and Reset the pending
\* length is the total modulo 32.  Stated of both engines; violated by both.
C12_PendingTracksTotal ==
  /\ h.n = h.total[1] % 32
  /\ g.n = g.total[1] % 32

\* the wrapping sum of the four little-endian words of a 32-byte digest
WordSum(r) ==
  Add(Add(Uint64(r, 0), Uint64(r, 8)), Add(Uint64(r, 16), Uint64(r, 24)))

\* the final block of an input x: its last whole 32-byte block, zeros when
\* it has none, with the first Len(x) mod 32 bytes replaced by the bytes of
\* x after that block
VirtualBlock(x) ==
  LET k    == Len(x) \div 32
      last == IF k = 0 THEN ZeroBlock ELSE SubSeq(x, 32 * k - 31, 32 * k)
  IN  CopyAt(last, 0, SubSeq(x, 32 * k + 1, Len(x)))

\* C13: for an input X of length L, the four words of New(L); Write(X);
\* Sum() add up to Pengyhash(X, L), on either engine; Pengyhash and the
\* engines after the Write hold the same final block, the one VirtualBlock
\* describes.
C13_OneShotIncremental ==
  /\ ret.op = "Pengyhash" => PengyTmp(input) = VirtualBlock(input)
  /\ ret.op = "Write" =>
       /\ h.block = VirtualBlock(input)
       /\ CopyAt(PutWords(g.b), 0, SubSeq(g.tmp, 1, g.n)) = VirtualBlock(input)
  /\ ret.op = "Sum" =>
       /\ WordSum(ret.bytes) = got64
       /\ WordSum(ret.bytesGo) = got64

\* C13's case: an input of whole blocks and a tail, other than zeros, run
\* to the Sum() of TestOutput
C13_Witness ==
  /\ ret.op = "Sum" /\ Len(input) = 69 /\ input[1] # 0
  /\ h.block # ZeroBlock /\ h.n = 5
  /\ got64 # Zero64

\* -a on uint64
Neg(a) ==
  Add(<<65535 - a[1], 65535 - a[2], 65535 - a[3], 65535 - a[4]>>, ToWord(1))

\* a - b on uint64, wrapping
Sub(a, b) == Add(a, Neg(b))

\* the rotation that undoes RotateLeft64(w, k)
RotateRight64(w, k) == RotateLeft64(w, 64 - k)

\* The eight steps of Round undone from the last to the first: the
\* accumulator that Round takes to t, given the block words b and the term
\* extra.
InvRound(t, b, extra) ==
  LET a1 == RotateRight64(Xor(t[2], t[3]), 40)
      a2 == Sub(Sub(t[3], a1), b[1])
      a3 == RotateRight64(Xor(t[4], t[1]), 16)
      a0 == Sub(Sub(t[1], a3), b[2])
      s4 == RotateRight64(Sub(a3, a2), 23)
      s3 == Sub(Sub(a2, s4), b[3])
      s2 == RotateRight64(Sub(Sub(a1, a0), extra), 14)
      s1 == Sub(Sub(a0, s2), b[4])
  IN  <<s1, s2, s3, s4>>

RECURSIVE InvRounds(_, _, _, _)
InvRounds(t, b, extra, k) ==
  IF k = 0 THEN t ELSE InvRounds(InvRound(t, b, extra), b, extra, k - 1)

\* C14: for a fixed block and a fixed added term the round is a bijection
\* of the accumulator.  The write32 of a Write is undone by InvRound, and
\* the six rounds of Sum by six InvRound; every accumulator reached is the
\* image under the round of the accumulator InvRound gives, with and
\* without the total added; and two engines whose accumulators differ still
\* differ after they absorb the same block, and return different Sum().
C14_RoundInvertible ==
  /\ [](/\ ret.op = "Sum" =>
             /\ InvRounds(BlockWords(ret.bytes), BlockWords(h.block),
                          h.total, 6) = h.s
             /\ (h.s # twin.s => Sum(twin).r # ret.bytes)
        /\ \A e \in {Zero64, h.total} :
             Round(InvRound(h.s, BlockWords(h.block), e),
                   BlockWords(h.block), e) = h.s)
  /\ [][ret'.op = "Write" =>
          /\ InvRound(h'.s, BlockWords(arg'), Zero64) = h.s
          /\ (h.s # twin.s => h'.s # twin'.s)]_vars

\* C14's case: two engines with different accumulators and a total of
\* 2^64 - 1 absorbed the same two blocks, and Sum() was taken
C14_Witness ==
  /\ ret.op = "Sum" /\ nw = 2 /\ h.s # twin.s
  /\ h.total = ToWord(63) /\ h.block # ZeroBlock

RECURSIVE Replay(_, _)
\* the README.md engine e after Write of each chunk of cs in order
Replay(e, cs) ==
  IF cs = <<>> THEN e ELSE Replay(Write(e, Head(cs)).h, Tail(cs))

RECURSIVE ReplayGo(_, _)
\* the pengyhash.go engine e after Write of each chunk of cs in order
ReplayGo(e, cs) ==
  IF cs = <<>> THEN e ELSE ReplayGo(WriteGo(e, Head(cs)).h, Tail(cs))

\* C15: once Reset() was called, Sum() is a function of the seed and of the
\* chunks written since the last Reset alone: it is the Sum() of an engine
\* of the same seed that was reset with nothing written before and given
\* the same chunks.  So two engines of one seed with different earlier
\* input return the same Sum() after Reset() and the same calls.  Stated of
\* both engines.
C15_ResetErasesHistory ==
  ~fresh =>
    /\ Sum(h).r = Sum(Replay(Reset(New(seed0)), chunks)).r
    /\ SumGo(g).r = SumGo(ReplayGo(ResetGo(NewGo(seed0)), chunks)).r

\* C15's case: bytes written before a Reset() are still in the tail buffer
\* of the pengyhash.go engine when Sum() is taken after a later Write
C15_Witness ==
  /\ ~fresh /\ ret.op = "Sum" /\ chunks # <<>>
  /\ g.tmp # ReplayGo(ResetGo(NewGo(seed0)), chunks).tmp

====
